---- MODULE Spec2Model ----
(***************************************************************************)
(* Ocean-ML backend: the lease (lock) protocol of start_annotation and the *)
(* multi-step annotation lifecycle of complete_annotation,                 *)
(* get_annotation and delete_annotation (src/backend/routers/              *)
(* annotations.py) over the Supabase record store and blob store           *)
(* (src/backend/services/supabase_client.py).                              *)
(*                                                                         *)
(* A worker is one server process.  Inside a worker a handler runs from    *)
(* its first line to its return; every call that goes to the store is one  *)
(* step, and the synchronous code between two store calls belongs to the   *)
(* step that follows it.  Workers share the store, so the steps of         *)
(* handlers running in different workers interleave (Spec).  With a single *)
(* worker (the `uvicorn.run` of src/backend/main.py) a handler never       *)
(* yields inside its body and requests are handled one after the other     *)
(* (SeqSpec).  Any store call may raise; the handler's `except Exception`  *)
(* turns that into a 500 response and undoes nothing.                      *)
(***************************************************************************)
EXTENDS Integers, Sequences, FiniteSets, TLC

\* ---- bounds of the model -------------------------------------------------
\* The clock runs from 0 to MaxTime (minutes).
MaxTime == 1
\* Requests accepted in a run of Spec (several workers).
MaxCalls == 2
\* Requests accepted in a run of SeqSpec (one worker).
MaxSeqCalls == 3
\* The largest timeout_minutes a client asks for.
MaxTimeout == 1

\* ---- values ----------------------------------------------------------------
\* Python's None / SQL NULL; a present value x of a nullable field is <<x>>.
NULL == <<>>

Some(x) == <<x>>

\* Python truthiness of a nullable string: None and "" are false.
Truthy(x) == x # NULL /\ x[1] # ""

Workers == {"w1", "w2"}

WorkerNo(w) == IF w = "w1" THEN 1 ELSE 2

MainWorker == "w1"

VideoIds == {"v1"}

\* timeout_minutes is any int of the query string, negative ones included.
Timeouts == -1..MaxTimeout

\* The identity every handler writes ("TODO: Get from auth").
current_user_id == "current_user_id"

\* datetime.isoformat(): the text kept in the record store.  The store hands
\* a column back as the text it was given.
isoformat(t) == [iso |-> t]

\* datetime.fromisoformat(text.replace("Z", "+00:00")).
fromisoformat(s) == s.iso

\* str.encode("utf-8"): the bytes handed to the blob store.
encode(s) == [utf8 |-> s]

\* f"annotations/{video_id}.txt"
annotation_path(v) == "annotations/" \o v \o ".txt"

\* The bodies of the AnnotationCompleteRequest the clients send; the last
\* two carry an empty and an absent annotation_data.
Payloads ==
    { [annotation_data |-> Some("0 0.5 0.5 0.1 0.1"), frames_annotated |-> 1,
       detection_count |-> 1, species_counts |-> [cod |-> 1]],
      [annotation_data |-> Some("1 0.2 0.2 0.3 0.3"), frames_annotated |-> 2,
       detection_count |-> 2, species_counts |-> [cod |-> 1, crab |-> 1]],
      [annotation_data |-> Some(""), frames_annotated |-> 0,
       detection_count |-> 0, species_counts |-> [cod |-> 0]],
      [annotation_data |-> NULL, frames_annotated |-> 0,
       detection_count |-> 0, species_counts |-> [cod |-> 0]] }

\* f"videos/{video_id}.{file_extension}"
video_path(v) == "videos/" \o v \o ".mp4"

\* A Video row as upload_video leaves it: not annotated, no lease.
NewVideo(video_id) ==
    [filename |-> video_id \o ".mp4",
     storage_path |-> Some(video_path(video_id)),
     annotated |-> FALSE, annotated_by |-> NULL, annotated_at |-> NULL,
     annotation_storage_path |-> NULL, detection_count |-> 0,
     locked_by |-> NULL, locked_at |-> NULL, lock_expires_at |-> NULL]

NoRequest == [op |-> "none"]

NoResponse == [status |-> 0]

VARIABLES
    now,            \* datetime.now(), in minutes
    videos,         \* table "videos": id -> row, for the ids that have one
    annotations,    \* table "annotations": video_id -> NULL or <<row>>
    storage,        \* buckets "videos", "annotations": path -> NULL or <<bytes>>
    activity_log,   \* table "activity_log", in insertion order
    pc,             \* worker -> position in the handler it runs
    request,        \* worker -> the request it is handling
    video,          \* worker -> local `video` (row read by get_video_by_id)
    updates,        \* worker -> local `updates` of start_annotation
    annotation,     \* worker -> local `annotation`
    response,       \* worker -> the last response it returned
    calls           \* number of requests accepted so far

vars == <<now, videos, annotations, storage, activity_log, pc, request,
          video, updates, annotation, response, calls>>

tables == <<videos, annotations, storage, activity_log>>

\* The desktop application (src/desktop/services/protocol_handler.py).
VARIABLES
    protocol,       \* ProtocolHandler.protocol
    link,           \* NULL, or <<the parts the URL was written from>>
    url,            \* NULL, or <<the URL the application was opened with>>
    result,         \* NULL, or <<what parse_url(url) returned or raised>>
    valid           \* NULL, or <<what validate_params(result) returned>>

desktop == <<protocol, link, url, result, valid>>

locals == <<video, updates, annotation>>

\* ---- SupabaseService -------------------------------------------------------
\* table(...).update(updates).eq("id", id): the columns named in `updates`
\* are overwritten, the others are kept.
update_row(row, upd) ==
    [f \in DOMAIN row |-> IF f \in DOMAIN upd THEN upd[f] ELSE row[f]]

\* The row of table "videos" with this id, when there is one.
get_video_by_id(video_id) == videos[video_id]

\* table("videos").update(updates).eq("id", id): no row, no change.
update_video(video_id, upd) ==
    IF video_id \in DOMAIN videos
    THEN [videos EXCEPT ![video_id] = update_row(@, upd)]
    ELSE videos

\* Deleting a Video row deletes the Annotation row that refers to it
\* (the cascade of the table definition).
cascade_annotations(video_id) == [annotations EXCEPT ![video_id] = NULL]

\* table("videos").delete().eq("id", id)
delete_video_row(video_id) ==
    [v \in DOMAIN videos \ {video_id} |-> videos[v]]

\* Faulty variant of upload_file: an object already at `path` is kept.
upload_file_keeps_existing(path, file_data) ==
    IF storage[path] = NULL
    THEN [storage EXCEPT ![path] = Some(file_data)]
    ELSE storage

\* storage.from_(bucket).upload(path, file_data).  The call passes no file
\* options, so whether an object already at `path` is replaced or the call
\* raises is the storage client's default: the model has both outcomes, the
\* write below and store_failure.
upload_file(path, file_data) == [storage EXCEPT ![path] = Some(file_data)]

delete_file(path) == [storage EXCEPT ![path] = NULL]

log_activity(action_type, resource_id, metadata) ==
    Append(activity_log, [action_type |-> action_type,
                          resource_type |-> "video",
                          resource_id |-> resource_id,
                          metadata |-> metadata])

\* HTTPException(status_code, detail)
HTTPException(status_code, detail) ==
    [status |-> status_code, detail |-> detail]

\* The worker returns `resp` and is free for the next request; of the
\* request it answered only the route is remembered.
Return(w, resp) ==
    /\ pc' = [pc EXCEPT ![w] = "idle"]
    /\ response' = [response EXCEPT ![w] = resp]
    /\ request' = [request EXCEPT ![w] = [op |-> request[w].op]]
    /\ video' = [video EXCEPT ![w] = NULL]
    /\ updates' = [updates EXCEPT ![w] = NULL]
    /\ annotation' = [annotation EXCEPT ![w] = NULL]
    /\ UNCHANGED desktop

\* The worker moves on to `label`; the desktop application takes no part in
\* a step of the backend.
Goto(w, label) ==
    /\ pc' = [pc EXCEPT ![w] = label]
    /\ UNCHANGED desktop

Init ==
    /\ now = 0
    /\ videos = [v \in VideoIds |-> NewVideo(v)]
    /\ annotations = [v \in VideoIds |-> NULL]
    /\ storage = [p \in {annotation_path(v) : v \in VideoIds}
                        \cup {video_path(v) : v \in VideoIds} |->
                    IF p \in {video_path(v) : v \in VideoIds}
                    THEN Some(encode(p)) ELSE NULL]
    /\ activity_log = <<>>
    /\ pc = [w \in Workers |-> "idle"]
    /\ request = [w \in Workers |-> NoRequest]
    /\ video = [w \in Workers |-> NULL]
    /\ updates = [w \in Workers |-> NULL]
    /\ annotation = [w \in Workers |-> NULL]
    /\ response = [w \in Workers |-> NoResponse]
    /\ calls = 0
    /\ protocol = "oceanml"
    /\ link = NULL
    /\ url = NULL
    /\ result = NULL
    /\ valid = NULL

\* The clock advances.
Tick ==
    /\ now < MaxTime
    /\ now' = now + 1
    /\ UNCHANGED <<tables, pc, request, locals, response, calls, desktop>>

\* A worker accepts a request; the response of its previous one has been
\* sent.
Accept(w, req, label) ==
    /\ pc[w] = "idle"
    /\ calls' = calls + 1
    /\ request' = [request EXCEPT ![w] = req]
    /\ response' = [response EXCEPT ![w] = NoResponse]
    /\ Goto(w, label)
    /\ UNCHANGED <<now, tables, locals>>

\* ---- POST /api/annotations/annotate/{video_id} -----------------------------
start_annotation(w, video_id, timeout_minutes) ==
    Accept(w, [op |-> "start_annotation", video_id |-> video_id,
               timeout_minutes |-> timeout_minutes], "acq_get")

\* video = await service.get_video_by_id(str(video_id))
start_annotation_get(w) ==
    /\ pc[w] = "acq_get"
    /\ IF request[w].video_id \notin DOMAIN videos
       THEN Return(w, HTTPException(404, "Video not found"))
       ELSE /\ video' = [video EXCEPT
                ![w] = Some(get_video_by_id(request[w].video_id))]
            /\ Goto(w, "acq_check")
            /\ UNCHANGED <<request, updates, annotation, response>>
    /\ UNCHANGED <<now, tables, calls>>

\* Faulty variant of lock_active: the expiry boundary counts as still held.
lock_active_inclusive(row, t) ==
    /\ Truthy(row.locked_by)
    /\ row.lock_expires_at # NULL
    /\ fromisoformat(row.lock_expires_at[1]) >= t

\* Faulty variant of lock_active: a lease of the requester itself does not
\* stand in the way of a new grant.
lock_active_other_holder(row, t) ==
    /\ Truthy(row.locked_by)
    /\ row.locked_by # Some(current_user_id)
    /\ row.lock_expires_at # NULL
    /\ fromisoformat(row.lock_expires_at[1]) > t

\* The lease read into `video` is held at time t.
lock_active(row, t) ==
    /\ Truthy(row.locked_by)
    /\ row.lock_expires_at # NULL
    /\ fromisoformat(row.lock_expires_at[1]) > t

\* Faulty variant of lock_updates: the timeout is left out of the expiry.
lock_updates_no_timeout(t, timeout_minutes) ==
    [locked_by |-> Some(current_user_id),
     locked_at |-> Some(isoformat(t)),
     lock_expires_at |-> Some(isoformat(t))]

\* Faulty variant of lock_updates: the time of the grant is not recorded.
lock_updates_no_locked_at(t, timeout_minutes) ==
    [locked_by |-> Some(current_user_id),
     lock_expires_at |-> Some(isoformat(t + timeout_minutes))]

\* The `updates` of a grant decided at time t.
lock_updates(t, timeout_minutes) ==
    [locked_by |-> Some(current_user_id),
     locked_at |-> Some(isoformat(t)),
     lock_expires_at |-> Some(isoformat(t + timeout_minutes))]

\* Faulty variant of lock_denied: the denial is raised as an error.
lock_denied_raises(video_id, row) ==
    HTTPException(409, "Video is currently being annotated by another user")

\* VideoLockResponse(success=False, ...)
lock_denied(video_id, row) ==
    [status |-> 200, success |-> FALSE, video_id |-> video_id,
     locked_by |-> row.locked_by[1],
     locked_until |-> fromisoformat(row.lock_expires_at[1])]

\* VideoLockResponse(success=True, ...)
lock_granted(video_id, upd) ==
    [status |-> 200, success |-> TRUE, video_id |-> video_id,
     locked_by |-> current_user_id,
     locked_until |-> fromisoformat(upd.lock_expires_at[1])]

\* "Check if already locked": deny, or build the updates of the grant.  The
\* datetime.now() of the comparison and the two of `updates` are read in
\* this one step: no store call lies between them.
start_annotation_check(w) ==
    /\ pc[w] = "acq_check"
    /\ IF lock_active(video[w][1], now)
       THEN /\ Return(w, lock_denied(request[w].video_id, video[w][1]))
       ELSE /\ updates' = [updates EXCEPT
                ![w] = Some(lock_updates(now, request[w].timeout_minutes))]
            /\ Goto(w, "acq_update")
            /\ UNCHANGED <<request, video, annotation, response>>
    /\ UNCHANGED <<now, tables, calls>>

\* await service.update_video(str(video_id), updates)
start_annotation_update(w) ==
    /\ pc[w] = "acq_update"
    /\ videos' = update_video(request[w].video_id, updates[w][1])
    /\ Goto(w, "acq_log")
    /\ UNCHANGED <<now, annotations, storage, activity_log, request, locals,
                   response, calls>>

\* await service.log_activity("annotation_started"); return the grant.
start_annotation_log(w) ==
    /\ pc[w] = "acq_log"
    /\ activity_log' = log_activity("annotation_started", request[w].video_id,
                                    [none |-> 0])
    /\ Return(w, lock_granted(request[w].video_id, updates[w][1]))
    /\ UNCHANGED <<now, videos, annotations, storage, calls>>

\* ---- POST /api/annotations/complete ---------------------------------------
complete_annotation(w, video_id, payload) ==
    Accept(w, [op |-> "complete_annotation", video_id |-> video_id,
               annotation_data |-> payload.annotation_data,
               frames_annotated |-> payload.frames_annotated,
               detection_count |-> payload.detection_count,
               species_counts |-> payload.species_counts], "cmp_get")

\* Faulty variant of valid_annotation_data: only an absent value is refused.
valid_annotation_data_present(data) == data # NULL

\* "Validate YOLO format (basic check)": the data is a non-empty str.
valid_annotation_data(data) == Truthy(data)

\* Faulty variant of complete_annotation_get: a completion is refused while
\* the video holds an active lease.
complete_annotation_get_checks_lease(w) ==
    /\ pc[w] = "cmp_get"
    /\ IF \/ ~valid_annotation_data(request[w].annotation_data)
          \/ lock_active(get_video_by_id(request[w].video_id), now)
       THEN Return(w, HTTPException(400, "Invalid annotation format"))
       ELSE /\ video' = [video EXCEPT
                ![w] = Some(get_video_by_id(request[w].video_id))]
            /\ Goto(w, "cmp_upload")
            /\ UNCHANGED <<request, updates, annotation, response>>
    /\ UNCHANGED <<now, tables, calls>>

\* video = await service.get_video_by_id(...); "Validate YOLO format".
complete_annotation_get(w) ==
    /\ pc[w] = "cmp_get"
    /\ IF request[w].video_id \notin DOMAIN videos
       THEN Return(w, HTTPException(404, "Video not found"))
       ELSE
       IF ~valid_annotation_data(request[w].annotation_data)
       THEN Return(w, HTTPException(400, "Invalid annotation format"))
       ELSE /\ video' = [video EXCEPT
                ![w] = Some(get_video_by_id(request[w].video_id))]
            /\ Goto(w, "cmp_upload")
            /\ UNCHANGED <<request, updates, annotation, response>>
    /\ UNCHANGED <<now, tables, calls>>

\* service.upload_file("annotations", annotation_path, data.encode("utf-8"))
complete_annotation_upload(w) ==
    /\ pc[w] = "cmp_upload"
    /\ storage' = upload_file(annotation_path(request[w].video_id),
                              encode(request[w].annotation_data[1]))
    /\ Goto(w, "cmp_upsert")
    /\ UNCHANGED <<now, videos, annotations, activity_log, request, locals,
                   response, calls>>

\* The row `annotation_data` built from the request.
annotation_row(req) ==
    [video_id |-> req.video_id,
     frames_annotated |-> req.frames_annotated,
     detection_count |-> req.detection_count,
     species_counts |-> req.species_counts,
     storage_path |-> Some(annotation_path(req.video_id))]

\* Faulty variant of upsert_annotation: an existing row is left as it is.
insert_annotation_if_absent(row) ==
    IF annotations[row.video_id] = NULL
    THEN [annotations EXCEPT ![row.video_id] = Some(row)]
    ELSE annotations

\* table("annotations").upsert(row): the row of this video_id, the key of
\* the table, is inserted or replaced.
upsert_annotation(row) == [annotations EXCEPT ![row.video_id] = Some(row)]

\* response = ...upsert(annotation_data).execute(); annotation = data[0]
complete_annotation_upsert(w) ==
    /\ pc[w] = "cmp_upsert"
    /\ annotations' = upsert_annotation(annotation_row(request[w]))
    /\ annotation' = [annotation EXCEPT
           ![w] = annotations'[request[w].video_id]]
    /\ Goto(w, "cmp_update")
    /\ UNCHANGED <<now, videos, storage, activity_log, request, video,
                   updates, response, calls>>

\* Faulty variant of video_updates: the expiry of the lease stays in place.
video_updates_keeps_expiry(req, t) ==
    [annotated |-> TRUE,
     annotated_by |-> Some(current_user_id),
     annotated_at |-> Some(isoformat(t)),
     annotation_storage_path |-> Some(annotation_path(req.video_id)),
     detection_count |-> req.detection_count,
     locked_by |-> NULL,
     locked_at |-> NULL]

\* The `video_updates` of a completion at time t.
video_updates(req, t) ==
    [annotated |-> TRUE,
     annotated_by |-> Some(current_user_id),
     annotated_at |-> Some(isoformat(t)),
     annotation_storage_path |-> Some(annotation_path(req.video_id)),
     detection_count |-> req.detection_count,
     locked_by |-> NULL,
     locked_at |-> NULL,
     lock_expires_at |-> NULL]

\* await service.update_video(str(request.video_id), video_updates)
complete_annotation_update(w) ==
    /\ pc[w] = "cmp_update"
    /\ videos' = update_video(request[w].video_id,
                              video_updates(request[w], now))
    /\ Goto(w, "cmp_log")
    /\ UNCHANGED <<now, annotations, storage, activity_log, request, locals,
                   response, calls>>

\* await service.log_activity("annotation_completed"); return annotation
complete_annotation_log(w) ==
    /\ pc[w] = "cmp_log"
    /\ activity_log' = log_activity("annotation_completed",
           request[w].video_id,
           [frames_annotated |-> request[w].frames_annotated,
            detection_count |-> request[w].detection_count])
    /\ Return(w, [status |-> 200, annotation |-> annotation[w][1]])
    /\ UNCHANGED <<now, videos, annotations, storage, calls>>

\* ---- GET /api/annotations/{video_id} ---------------------------------------
get_annotation(w, video_id) ==
    Accept(w, [op |-> "get_annotation", video_id |-> video_id], "get_select")

\* What table("annotations").select("*").eq("video_id", id) answers.
select_annotation(video_id) ==
    IF annotations[video_id] = NULL
    THEN HTTPException(404, "Annotation not found")
    ELSE [status |-> 200, annotation |-> annotations[video_id][1]]

get_annotation_select(w) ==
    /\ pc[w] = "get_select"
    /\ Return(w, select_annotation(request[w].video_id))
    /\ UNCHANGED <<now, tables, calls>>

\* ---- DELETE /api/annotations/{video_id} ------------------------------------
delete_annotation(w, video_id) ==
    Accept(w, [op |-> "delete_annotation", video_id |-> video_id], "del_select")

\* Faulty variant of delete_annotation_select: without an Annotation row
\* the handler goes on to reset the Video.
delete_annotation_select_resets_video(w) ==
    /\ pc[w] = "del_select"
    /\ IF annotations[request[w].video_id] = NULL
       THEN /\ Goto(w, "del_update")
            /\ UNCHANGED <<request, locals, response>>
       ELSE /\ annotation' = [annotation EXCEPT
                ![w] = annotations[request[w].video_id]]
            /\ Goto(w, IF Truthy(annotations[request[w].video_id][1].storage_path)
                       THEN "del_file" ELSE "del_row")
            /\ UNCHANGED <<request, video, updates, response>>
    /\ UNCHANGED <<now, tables, calls>>

\* "Get annotation": 404 when there is none.
delete_annotation_select(w) ==
    /\ pc[w] = "del_select"
    /\ IF annotations[request[w].video_id] = NULL
       THEN Return(w, HTTPException(404, "Annotation not found"))
       ELSE /\ annotation' = [annotation EXCEPT
                ![w] = annotations[request[w].video_id]]
            /\ Goto(w, IF Truthy(annotations[request[w].video_id][1].storage_path)
                       THEN "del_file" ELSE "del_row")
            /\ UNCHANGED <<request, video, updates, response>>
    /\ UNCHANGED <<now, tables, calls>>

\* Faulty variant of delete_annotation_file: the Annotation row is deleted
\* together with the blob.
delete_annotation_file_and_row(w) ==
    /\ pc[w] = "del_file"
    /\ storage' = delete_file(annotation[w][1].storage_path[1])
    /\ annotations' = [annotations EXCEPT ![request[w].video_id] = NULL]
    /\ Goto(w, "del_row")
    /\ UNCHANGED <<now, videos, activity_log, request, locals, response,
                   calls>>

\* service.delete_file("annotations", annotation["storage_path"])
delete_annotation_file(w) ==
    /\ pc[w] = "del_file"
    /\ storage' = delete_file(annotation[w][1].storage_path[1])
    /\ Goto(w, "del_row")
    /\ UNCHANGED <<now, videos, annotations, activity_log, request, locals,
                   response, calls>>

\* table("annotations").delete().eq("video_id", str(video_id))
delete_annotation_row(w) ==
    /\ pc[w] = "del_row"
    /\ annotations' = [annotations EXCEPT ![request[w].video_id] = NULL]
    /\ Goto(w, "del_update")
    /\ UNCHANGED <<now, videos, storage, activity_log, request, locals,
                   response, calls>>

\* Faulty variant of annotation_reset: the detection count is not reset.
annotation_reset_keeps_count ==
    [annotated |-> FALSE,
     annotated_by |-> NULL,
     annotated_at |-> NULL,
     annotation_storage_path |-> NULL]

\* Faulty variant of annotation_reset: the reset also releases the lease.
annotation_reset_releases_lease ==
    [annotated |-> FALSE,
     annotated_by |-> NULL,
     annotated_at |-> NULL,
     annotation_storage_path |-> NULL,
     detection_count |-> 0,
     locked_by |-> NULL,
     locked_at |-> NULL,
     lock_expires_at |-> NULL]

\* The updates that reset the annotation fields of the Video.
annotation_reset ==
    [annotated |-> FALSE,
     annotated_by |-> NULL,
     annotated_at |-> NULL,
     annotation_storage_path |-> NULL,
     detection_count |-> 0]

\* await service.update_video(str(video_id), {...})
delete_annotation_update(w) ==
    /\ pc[w] = "del_update"
    /\ videos' = update_video(request[w].video_id, annotation_reset)
    /\ Goto(w, "del_log")
    /\ UNCHANGED <<now, annotations, storage, activity_log, request, locals,
                   response, calls>>

\* await service.log_activity("annotation_deleted"); return the message
delete_annotation_log(w) ==
    /\ pc[w] = "del_log"
    /\ activity_log' = log_activity("annotation_deleted", request[w].video_id,
                                    [none |-> 0])
    /\ Return(w, [status |-> 200,
                  message |-> "Annotation deleted successfully",
                  video_id |-> request[w].video_id])
    /\ UNCHANGED <<now, videos, annotations, storage, calls>>

\* ---- DELETE /api/videos/{video_id} -----------------------------------------
delete_video(w, video_id) ==
    Accept(w, [op |-> "delete_video", video_id |-> video_id], "dv_get")

\* "Get video details": 404 when there is none.
delete_video_get(w) ==
    /\ pc[w] = "dv_get"
    /\ IF request[w].video_id \notin DOMAIN videos
       THEN Return(w, HTTPException(404, "Video not found"))
       ELSE /\ video' = [video EXCEPT
                ![w] = Some(get_video_by_id(request[w].video_id))]
            /\ Goto(w, IF Truthy(get_video_by_id(request[w].video_id).storage_path)
                       THEN "dv_file" ELSE "dv_annotation_file")
            /\ UNCHANGED <<request, updates, annotation, response>>
    /\ UNCHANGED <<now, tables, calls>>

\* service.delete_file("videos", video["storage_path"])
delete_video_file(w) ==
    /\ pc[w] = "dv_file"
    /\ storage' = delete_file(video[w][1].storage_path[1])
    /\ Goto(w, "dv_annotation_file")
    /\ UNCHANGED <<now, videos, annotations, activity_log, request, locals,
                   response, calls>>

\* "Delete annotation if exists": the blob named by the Video row that was
\* read, when it names one.
delete_video_annotation_file(w) ==
    /\ pc[w] = "dv_annotation_file"
    /\ storage' = IF Truthy(video[w][1].annotation_storage_path)
                  THEN delete_file(video[w][1].annotation_storage_path[1])
                  ELSE storage
    /\ Goto(w, "dv_delete")
    /\ UNCHANGED <<now, videos, annotations, activity_log, request, locals,
                   response, calls>>

\* await service.delete_video(str(video_id))
delete_video_delete(w) ==
    /\ pc[w] = "dv_delete"
    /\ videos' = delete_video_row(request[w].video_id)
    /\ annotations' = cascade_annotations(request[w].video_id)
    /\ Goto(w, "dv_log")
    /\ UNCHANGED <<now, storage, activity_log, request, locals, response,
                   calls>>

\* await service.log_activity("video_deleted"); return the message
delete_video_log(w) ==
    /\ pc[w] = "dv_log"
    /\ activity_log' = log_activity("video_deleted", request[w].video_id,
                                    [filename |-> video[w][1].filename])
    /\ Return(w, [status |-> 200,
                  message |-> "Video deleted successfully",
                  video_id |-> request[w].video_id])
    /\ UNCHANGED <<now, videos, annotations, storage, calls>>

\* ---- except Exception: raise HTTPException(500) ----------------------------
\* The positions at which the next statement is a call to the store.
StoreCallLabels ==
    {"acq_get", "acq_update", "acq_log",
     "cmp_get", "cmp_upload", "cmp_upsert", "cmp_update", "cmp_log",
     "get_select",
     "del_select", "del_file", "del_row", "del_update", "del_log",
     "dv_get", "dv_file", "dv_annotation_file", "dv_delete", "dv_log"}

\* Faulty variant of store_failure: a failed update of the Video takes the
\* Annotation row written before it back.
store_failure_rolls_back(w) ==
    /\ pc[w] \in StoreCallLabels
    /\ Return(w, HTTPException(500, request[w].op))
    /\ annotations' = IF pc[w] = "cmp_update"
                      THEN [annotations EXCEPT ![request[w].video_id] = NULL]
                      ELSE annotations
    /\ UNCHANGED <<now, videos, storage, activity_log, calls>>

\* Faulty variant of store_failure: a failed log append of start_annotation
\* takes the lease back.
store_failure_releases_lease(w) ==
    /\ pc[w] \in StoreCallLabels
    /\ Return(w, HTTPException(500, request[w].op))
    /\ videos' = IF pc[w] = "acq_log"
                 THEN update_video(request[w].video_id,
                                   [locked_by |-> NULL, locked_at |-> NULL,
                                    lock_expires_at |-> NULL])
                 ELSE videos
    /\ UNCHANGED <<now, annotations, storage, activity_log, calls>>

\* The store call the worker is about to make raises.
store_failure(w) ==
    /\ pc[w] \in StoreCallLabels
    /\ Return(w, HTTPException(500, request[w].op))
    /\ UNCHANGED <<now, tables, calls>>

\* One step of the handler a worker is running.
Step(w) ==
    \/ start_annotation_get(w)
    \/ start_annotation_check(w)
    \/ start_annotation_update(w)
    \/ start_annotation_log(w)
    \/ complete_annotation_get(w)
    \/ complete_annotation_upload(w)
    \/ complete_annotation_upsert(w)
    \/ complete_annotation_update(w)
    \/ complete_annotation_log(w)
    \/ get_annotation_select(w)
    \/ delete_annotation_select(w)
    \/ delete_annotation_file(w)
    \/ delete_annotation_row(w)
    \/ delete_annotation_update(w)
    \/ delete_annotation_log(w)
    \/ store_failure(w)

\* A request arrives at a worker.
Arrive(w) ==
    \/ \E v \in VideoIds, t \in Timeouts : start_annotation(w, v, t)
    \/ \E v \in VideoIds, p \in Payloads : complete_annotation(w, v, p)
    \/ \E v \in VideoIds : get_annotation(w, v)
    \/ \E v \in VideoIds : delete_annotation(w, v)

\* A request goes to the first worker that is free.
Dispatch(w) ==
    /\ calls < MaxCalls
    /\ \A u \in Workers : WorkerNo(u) < WorkerNo(w) => pc[u] # "idle"
    /\ Arrive(w)

\* Several workers over one store: handlers interleave at their store calls.
Next ==
    \/ Tick
    \/ \E w \in Workers : Dispatch(w)
    \/ \E w \in Workers : Step(w)

Spec == Init /\ [][Next]_vars

\* One worker: a request is accepted only when no handler is running.
SeqNext ==
    \/ Tick
    \/ calls < MaxSeqCalls /\ Arrive(MainWorker)
    \/ Step(MainWorker)

SeqSpec == Init /\ [][SeqNext]_vars

\* Several workers that receive only start_annotation requests.
LockStep(w) ==
    \/ start_annotation_get(w)
    \/ start_annotation_check(w)
    \/ start_annotation_update(w)
    \/ start_annotation_log(w)
    \/ store_failure(w)

LockDispatch(w) ==
    /\ calls < MaxCalls
    /\ \A u \in Workers : WorkerNo(u) < WorkerNo(w) => pc[u] # "idle"
    /\ \E v \in VideoIds, t \in Timeouts : start_annotation(w, v, t)

LockNext ==
    \/ Tick
    \/ \E w \in Workers : LockDispatch(w)
    \/ \E w \in Workers : LockStep(w)

LockSpec == Init /\ [][LockNext]_vars

\* One worker that also receives the requests to delete a video.
VideoStep(w) ==
    \/ Step(w)
    \/ delete_video_get(w)
    \/ delete_video_file(w)
    \/ delete_video_annotation_file(w)
    \/ delete_video_delete(w)
    \/ delete_video_log(w)

VideoArrive(w) ==
    \/ Arrive(w)
    \/ \E v \in VideoIds : delete_video(w, v)

VideoNext ==
    \/ Tick
    \/ calls < MaxSeqCalls /\ VideoArrive(MainWorker)
    \/ VideoStep(MainWorker)

VideoSpec == Init /\ [][VideoNext]_vars

\* ---- src/desktop/services/protocol_handler.py ------------------------------
\* A Python call either returns a value or raises an exception.
returns(value) == [returned |-> value]

raises(type, message) == [raised |-> type, message |-> message]

\* The characters of a str, as a set.
CharsOf(s) == {SubSeq(s, i, i) : i \in 1..Len(s)}

ascii_lowercase == "abcdefghijklmnopqrstuvwxyz"

ascii_uppercase == "ABCDEFGHIJKLMNOPQRSTUVWXYZ"

\* urllib.parse.scheme_chars
scheme_chars ==
    CharsOf(ascii_lowercase) \cup CharsOf(ascii_uppercase)
        \cup CharsOf("0123456789+-.")

\* str.find(c): the place of the first c in s, counted from 1; 0 when s has
\* no c (Python counts from 0 and answers -1).
find(s, c) ==
    LET I == {i \in 1..Len(s) : SubSeq(s, i, i) = c}
    IN IF I = {} THEN 0 ELSE CHOOSE i \in I : \A j \in I : i <= j

\* str.lower()
RECURSIVE lower(_)
lower(s) ==
    IF s = "" THEN ""
    ELSE LET c == SubSeq(s, 1, 1)
             k == find(ascii_uppercase, c)
         IN (IF k = 0 THEN c ELSE SubSeq(ascii_lowercase, k, k))
                \o lower(SubSeq(s, 2, Len(s)))

\* str.split(sep) for a separator of one character
RECURSIVE split(_, _)
split(s, sep) ==
    LET k == find(s, sep)
    IN IF k = 0 THEN <<s>>
       ELSE <<SubSeq(s, 1, k - 1)>> \o split(SubSeq(s, k + 1, Len(s)), sep)

\* str.replace("+", " "), the decoding parse_qs applies to names and values
\* (the URLs of the model carry no %-escape).
RECURSIVE unquote_plus(_)
unquote_plus(s) ==
    IF s = "" THEN ""
    ELSE (IF SubSeq(s, 1, 1) = "+" THEN " " ELSE SubSeq(s, 1, 1))
            \o unquote_plus(SubSeq(s, 2, Len(s)))

\* urllib.parse.urlparse(url): scheme (lower-cased), netloc, path, query and
\* fragment; ValueError for a netloc with one square bracket only.
urlparse(u) ==
    LET i == find(u, ":")
        has_scheme ==
            /\ i > 1
            /\ SubSeq(u, 1, 1) \in CharsOf(ascii_lowercase)
                                      \cup CharsOf(ascii_uppercase)
            /\ \A j \in 1..(i - 1) : SubSeq(u, j, j) \in scheme_chars
        scheme == IF has_scheme THEN lower(SubSeq(u, 1, i - 1)) ELSE ""
        rest == IF has_scheme THEN SubSeq(u, i + 1, Len(u)) ELSE u
        has_netloc == Len(rest) >= 2 /\ SubSeq(rest, 1, 2) = "//"
        D == {j \in 3..Len(rest) : SubSeq(rest, j, j) \in {"/", "?", "#"}}
        delim == IF D = {} THEN Len(rest) + 1
                 ELSE CHOOSE j \in D : \A k \in D : j <= k
        netloc == IF has_netloc THEN SubSeq(rest, 3, delim - 1) ELSE ""
        after == IF has_netloc THEN SubSeq(rest, delim, Len(rest)) ELSE rest
        h == find(after, "#")
        nofrag == IF h = 0 THEN after ELSE SubSeq(after, 1, h - 1)
        fragment == IF h = 0 THEN "" ELSE SubSeq(after, h + 1, Len(after))
        q == find(nofrag, "?")
        path == IF q = 0 THEN nofrag ELSE SubSeq(nofrag, 1, q - 1)
        query == IF q = 0 THEN "" ELSE SubSeq(nofrag, q + 1, Len(nofrag))
    IN IF ("[" \in CharsOf(netloc)) # ("]" \in CharsOf(netloc))
       THEN raises("ValueError", "Invalid IPv6 URL")
       ELSE returns([scheme |-> scheme, netloc |-> netloc, path |-> path,
                     query |-> query, fragment |-> fragment])

\* The name and value pairs urllib.parse.parse_qs keeps, in their order: a
\* pair without "=" or with an empty value is dropped.
RECURSIVE qs_pairs(_)
qs_pairs(name_values) ==
    IF name_values = <<>> THEN <<>>
    ELSE LET nv == Head(name_values)
             e == find(nv, "=")
             name == SubSeq(nv, 1, e - 1)
             value == SubSeq(nv, e + 1, Len(nv))
         IN (IF e = 0 \/ value = "" THEN <<>>
             ELSE <<[name |-> unquote_plus(name),
                     value |-> unquote_plus(value)]>>)
                \o qs_pairs(Tail(name_values))

parse_qs(query) == qs_pairs(split(query, "&"))

\* Faulty variant of first_value: the last value of the parameter is taken.
last_value(params, key) ==
    LET I == {i \in 1..Len(params) : params[i].name = key}
    IN IF I = {} THEN NULL
       ELSE Some(params[CHOOSE i \in I : \A j \in I : i >= j].value)

\* params.get(key, [None])[0]
first_value(params, key) ==
    LET I == {i \in 1..Len(params) : params[i].name = key}
    IN IF I = {} THEN NULL
       ELSE Some(params[CHOOSE i \in I : \A j \in I : i <= j].value)

\* ProtocolHandler.parse_url: the `raise ValueError` of the protocol check
\* is inside the `try`, so it is caught and wrapped like any other.
parse_url(self_protocol, u) ==
    LET parsed == urlparse(u)
    IN IF "raised" \in DOMAIN parsed
       THEN raises("ValueError", "Failed to parse URL: " \o parsed.message)
       ELSE IF parsed.returned.scheme # self_protocol
       THEN raises("ValueError",
                   "Failed to parse URL: Invalid protocol. Expected '"
                       \o self_protocol \o "://', got '"
                       \o parsed.returned.scheme \o "://'")
       ELSE returns(
              [action |-> IF parsed.returned.netloc # ""
                          THEN parsed.returned.netloc
                          ELSE split(parsed.returned.path, "/")[1],
               video_id |-> first_value(parse_qs(parsed.returned.query),
                                        "video"),
               token |-> first_value(parse_qs(parsed.returned.query),
                                     "token")])

\* ProtocolHandler.validate_token
validate_token(token) ==
    IF ~Truthy(token) THEN FALSE ELSE Len(split(token[1], ".")) = 3

\* Faulty variant of validate_params: the token is split without the check
\* that there is one.
validate_params_splits_token(params) ==
    IF params.action = "" THEN returns(FALSE)
    ELSE IF ~Truthy(params.video_id) THEN returns(FALSE)
    ELSE IF params.token = NULL
    THEN raises("AttributeError",
                "'NoneType' object has no attribute 'split'")
    ELSE returns(Len(split(params.token[1], ".")) = 3)

\* ProtocolHandler.validate_params
validate_params(params) ==
    IF params.action = "" THEN returns(FALSE)
    ELSE IF ~Truthy(params.video_id) THEN returns(FALSE)
    ELSE IF ~Truthy(params.token) THEN returns(FALSE)
    ELSE IF ~validate_token(params.token) THEN returns(FALSE)
    ELSE returns(TRUE)

\* The URLs the application is opened with, by their parts: the scheme, the
\* authority after "//", the path, the name=value pairs of the query and the
\* fragment, each of them possibly absent.
LinkSchemes ==
    {NULL, Some("oceanml"), Some("OCEANML"), Some("OceanML"), Some("http")}

LinkAuthorities ==
    {NULL, Some(""), Some("annotate"), Some("example.com"), Some("[annotate")}

LinkPaths == {"", "annotate", "annotate/x", "/annotate", "/annotate/x"}

Pair(name, value) == [name |-> name, value |-> value]

LinkQueries ==
    { NULL,
      Some(<<>>),
      Some(<<Pair("video", Some("123")), Pair("token", Some("eyJ.eyJ.sig"))>>),
      Some(<<Pair("video", Some("123"))>>),
      Some(<<Pair("token", Some("eyJ.eyJ.sig"))>>),
      Some(<<Pair("video", Some("123")), Pair("token", Some(".."))>>),
      Some(<<Pair("video", Some("123")), Pair("token", Some("a..c"))>>),
      Some(<<Pair("video", Some("123")), Pair("token", Some("a.b."))>>),
      Some(<<Pair("video", Some("123")), Pair("token", Some("abc"))>>),
      Some(<<Pair("video", Some("123")), Pair("token", Some("a.b.c.d"))>>),
      Some(<<Pair("video", Some("123")), Pair("token", Some("a=b.c.d"))>>),
      Some(<<Pair("video", Some("")), Pair("token", Some("a.b.c"))>>),
      Some(<<Pair("video", NULL), Pair("token", Some("a.b.c"))>>),
      Some(<<Pair("video", Some("1+2")), Pair("token", Some("a.b.c"))>>),
      Some(<<Pair("token", Some("a.b.c")), Pair("video", Some("123"))>>),
      Some(<<Pair("other", Some("x")), Pair("video", Some("123")),
             Pair("token", Some("a.b.c"))>>),
      Some(<<Pair("video", Some("1")), Pair("video", Some("2")),
             Pair("token", Some("a.b.c")), Pair("token", Some("x.y.z"))>>) }

LinkFragments == {NULL, Some("frag")}

\* An authority is followed by nothing or by a path that begins with "/".
Links ==
    {c \in [scheme : LinkSchemes, authority : LinkAuthorities,
            path : LinkPaths, query : LinkQueries, fragment : LinkFragments] :
        c.authority # NULL => c.path = "" \/ SubSeq(c.path, 1, 1) = "/"}

\* name=value&name=value...
RECURSIVE query_string(_)
query_string(pairs) ==
    IF pairs = <<>> THEN ""
    ELSE Head(pairs).name
            \o (IF Head(pairs).value = NULL THEN ""
                ELSE "=" \o Head(pairs).value[1])
            \o (IF Len(pairs) = 1 THEN "" ELSE "&")
            \o query_string(Tail(pairs))

\* The text of the URL with these parts: scheme://authority/path?query#fragment
link_url(c) ==
    (IF c.scheme = NULL THEN "" ELSE c.scheme[1] \o ":")
        \o (IF c.authority = NULL THEN "" ELSE "//" \o c.authority[1])
        \o c.path
        \o (IF c.query = NULL THEN "" ELSE "?" \o query_string(c.query[1]))
        \o (IF c.fragment = NULL THEN "" ELSE "#" \o c.fragment[1])

\* The operating system starts the application with a URL.
open_url(c) ==
    /\ url = NULL
    /\ link' = Some(c)
    /\ url' = Some(link_url(c))
    /\ UNCHANGED <<protocol, result, valid, vars>>

\* result = handler.parse_url(url)
call_parse_url ==
    /\ url # NULL
    /\ result = NULL
    /\ result' = Some(parse_url(protocol, url[1]))
    /\ UNCHANGED <<protocol, link, url, valid, vars>>

\* handler.validate_params(result), when parse_url returned
call_validate_params ==
    /\ result # NULL
    /\ "returned" \in DOMAIN result[1]
    /\ valid = NULL
    /\ valid' = Some(validate_params(result[1].returned))
    /\ UNCHANGED <<protocol, link, url, result, vars>>

HandoffNext ==
    \/ \E c \in Links : open_url(c)
    \/ call_parse_url
    \/ call_validate_params

HandoffSpec == Init /\ [][HandoffNext]_<<vars, desktop>>

\* ---- properties --------------------------------------------------------------
\* The three lease fields of a Video row.
Lease(row) == <<row.locked_by, row.locked_at, row.lock_expires_at>>

NoLease == <<NULL, NULL, NULL>>

\* "No active lease" in the words of the specification: locked_by unset, or
\* lock_expires_at at or before the time t.
NoActiveLease(row, t) ==
    \/ row.locked_by = NULL
    \/ /\ row.lock_expires_at # NULL
       /\ fromisoformat(row.lock_expires_at[1]) <= t

\* Worker w takes a step of its handler from position `from`.
Leaves(w, from) == pc[w] = from /\ pc'[w] # from

\* Worker w returns a response from position `from`.
Returns(w, from) == pc[w] = from /\ pc'[w] = "idle"

\* C1: among acquire calls that run concurrently on a video, at most one is
\* granted: no two calls have both written a lease and are about to return
\* success unless one lease starts at or after the end of the other.
C1_ExactlyOneGrant ==
    \A w \in Workers, u \in Workers :
        (/\ w # u
         /\ pc[w] = "acq_log"
         /\ pc[u] = "acq_log"
         /\ request[w].video_id = request[u].video_id)
        => \/ fromisoformat(updates[w][1].locked_at[1])
                >= fromisoformat(updates[u][1].lock_expires_at[1])
           \/ fromisoformat(updates[u][1].locked_at[1])
                >= fromisoformat(updates[w][1].lock_expires_at[1])

\* C2: start_annotation takes the grant path if and only if the Video row it
\* read has no active lease at the time of the check; the grant writes
\* locked_by = the requester, locked_at = now and lock_expires_at = now +
\* timeout into the row, and the granted response carries that same expiry.
C2_GrantIffNoActiveLease ==
    [][\A w \in Workers :
        /\ Leaves(w, "acq_check") =>
              /\ (pc'[w] = "acq_update") <=> NoActiveLease(video[w][1], now)
              /\ pc'[w] = "acq_update" =>
                    updates'[w] = Some(
                      [locked_by |-> Some(current_user_id),
                       locked_at |-> Some(isoformat(now)),
                       lock_expires_at |->
                           Some(isoformat(now + request[w].timeout_minutes))])
              /\ pc'[w] # "acq_update" =>
                    /\ pc'[w] = "idle"
                    /\ response'[w].success = FALSE
        /\ (pc[w] = "acq_update" /\ pc'[w] = "acq_log") =>
              Lease(videos'[request[w].video_id])
                  = <<updates[w][1].locked_by, updates[w][1].locked_at,
                      updates[w][1].lock_expires_at>>
        /\ (Returns(w, "acq_log") /\ response'[w].status = 200) =>
              /\ response'[w].success = TRUE
              /\ response'[w].locked_by = current_user_id
              /\ response'[w].locked_until
                    = fromisoformat(updates[w][1].lock_expires_at[1])
      ]_vars

\* A granted response whose expiry is the one persisted in the Video row.
C2_Witness ==
    \E w \in Workers, v \in VideoIds :
        /\ response[w].status = 200
        /\ "success" \in DOMAIN response[w]
        /\ response[w].success = TRUE
        /\ response[w].video_id = v
        /\ videos[v].locked_by = Some(current_user_id)
        /\ videos[v].lock_expires_at = Some(isoformat(response[w].locked_until))
        /\ response[w].locked_until > now

\* C3: when start_annotation finds an active lease (holder present, expiry
\* strictly after now) it returns a normal response with success = false,
\* the holder and the expiry, and neither its read nor its check changes the
\* Video rows, the Annotation rows, the blob store or the activity log.
C3_DenialChangesNothing ==
    [][\A w \in Workers :
        /\ Leaves(w, "acq_get") => UNCHANGED tables
        /\ (/\ Leaves(w, "acq_check")
            /\ video[w][1].locked_by # NULL
            /\ video[w][1].lock_expires_at # NULL
            /\ fromisoformat(video[w][1].lock_expires_at[1]) > now) =>
              /\ pc'[w] = "idle"
              /\ response'[w] =
                    [status |-> 200, success |-> FALSE,
                     video_id |-> request[w].video_id,
                     locked_by |-> video[w][1].locked_by[1],
                     locked_until |->
                         fromisoformat(video[w][1].lock_expires_at[1])]
              /\ UNCHANGED tables
      ]_vars

\* A denial has been returned for a video whose lease is still active.
C3_Witness ==
    \E w \in Workers :
        /\ response[w].status = 200
        /\ "success" \in DOMAIN response[w]
        /\ response[w].success = FALSE
        /\ response[w].locked_by = current_user_id
        /\ response[w].locked_until > now
        /\ videos[response[w].video_id].locked_by # NULL

\* The row holds a lease that was granted with timeout_minutes = 0.
ZeroLease(row) ==
    /\ row.locked_by # NULL
    /\ row.locked_at # NULL
    /\ row.lock_expires_at = row.locked_at

\* C4: a start_annotation that reads a lease granted with timeout 0, at the
\* clock value of that grant or later, is granted: it takes the grant path,
\* writes its lease and, unless a store call raises, returns success.
C4_ZeroLeaseAllowsNextAcquire ==
    [][\A w \in Workers :
        (video[w] # NULL /\ ZeroLease(video[w][1])) =>
            /\ Leaves(w, "acq_check") => pc'[w] = "acq_update"
            /\ Returns(w, "acq_log") =>
                  \/ response'[w].status = 500
                  \/ /\ response'[w].status = 200
                     /\ response'[w].success = TRUE
      ]_vars

\* A second acquire has read a zero-timeout lease at the very clock value of
\* its grant, and has written its own lease over it.
C4_Witness ==
    \E w \in Workers :
        /\ pc[w] = "acq_log"
        /\ ZeroLease(video[w][1])
        /\ fromisoformat(video[w][1].lock_expires_at[1]) = now
        /\ request[w].timeout_minutes = 1
        /\ Lease(videos[request[w].video_id]) # Lease(video[w][1])

\* C5: a Video with annotated = true has annotation_storage_path set and
\* locked_by unset.
C5_AnnotatedImpliesUnlocked ==
    \A v \in VideoIds :
        videos[v].annotated =>
            /\ videos[v].annotation_storage_path # NULL
            /\ videos[v].locked_by = NULL

\* C6: in every state, intermediate and failure states included, an
\* Annotation row exists exactly when its Video has annotated = true.
C6_AnnotationIffAnnotated ==
    \A v \in VideoIds : (annotations[v] # NULL) <=> videos[v].annotated

\* C7: when complete_annotation returns successfully, the Video is annotated,
\* has no active lease, and its annotation_storage_path names a blob equal
\* to the bytes this call submitted.
C7_CompletePostcondition ==
    [][\A w \in Workers :
        (Returns(w, "cmp_log") /\ response'[w].status = 200) =>
            LET v == request[w].video_id
                row == videos'[v]
            IN /\ row.annotated
               /\ NoActiveLease(row, now')
               /\ row.annotation_storage_path # NULL
               /\ storage'[row.annotation_storage_path[1]]
                     = Some(encode(request[w].annotation_data[1]))
      ]_vars

\* C8: right after a successful complete_annotation, get_annotation answers
\* the Annotation row of that video with the detection_count and the
\* species_counts of the request, also when a row existed before.
C8_CompleteThenGetRoundTrip ==
    [][\A w \in Workers, v \in VideoIds :
        (/\ Returns(w, "cmp_log")
         /\ response'[w].status = 200
         /\ request[w].video_id = v) =>
            /\ select_annotation(v)'.status = 200
            /\ select_annotation(v)'.annotation.video_id = v
            /\ select_annotation(v)'.annotation.detection_count
                  = request[w].detection_count
            /\ select_annotation(v)'.annotation.species_counts
                  = request[w].species_counts
      ]_vars

\* A second completion has replaced the row of the first one, and the row
\* read back is the one of the second.
C8_Witness ==
    \E w \in Workers :
        /\ response[w].status = 200
        /\ "annotation" \in DOMAIN response[w]
        /\ Len(activity_log) = 2
        /\ activity_log[1].action_type = "annotation_completed"
        /\ activity_log[2].action_type = "annotation_completed"
        /\ activity_log[1].metadata.detection_count = 1
        /\ activity_log[2].metadata.detection_count = 2
        /\ select_annotation(response[w].annotation.video_id).status = 200
        /\ select_annotation(response[w].annotation.video_id).annotation
              .species_counts = [cod |-> 1, crab |-> 1]

\* C9: a successful delete_annotation leaves the Video with annotated =
\* false, detection_count = 0, annotated_by, annotated_at and
\* annotation_storage_path unset, and no Annotation row.
C9_DeleteRestoresVideo ==
    [][\A w \in Workers :
        (Returns(w, "del_log") /\ response'[w].status = 200) =>
            LET v == request[w].video_id
            IN /\ videos'[v].annotated = FALSE
               /\ videos'[v].detection_count = 0
               /\ videos'[v].annotated_by = NULL
               /\ videos'[v].annotated_at = NULL
               /\ videos'[v].annotation_storage_path = NULL
               /\ annotations'[v] = NULL
      ]_vars

\* A successful complete_annotation, then a successful delete_annotation.
C9_Witness ==
    \E w \in Workers :
        /\ response[w].status = 200
        /\ "message" \in DOMAIN response[w]
        /\ Len(activity_log) = 2
        /\ activity_log[1].action_type = "annotation_completed"
        /\ activity_log[1].metadata.detection_count = 2
        /\ activity_log[2].action_type = "annotation_deleted"
        /\ activity_log[2].resource_id = activity_log[1].resource_id
        /\ videos[response[w].video_id].detection_count = 0

\* C10: the release done by the completion step is unconditional and
\* idempotent: the step can be taken whatever the lease, it leaves the three
\* lease fields unset, on an unlocked video it leaves them as they were, and
\* applying the same update a second time changes nothing.
C10_ReleaseIdempotent ==
    /\ [](\A w \in Workers :
            pc[w] = "cmp_update" => ENABLED complete_annotation_update(w))
    /\ [][\A w \in Workers :
            (pc[w] = "cmp_update" /\ pc'[w] = "cmp_log") =>
                LET v == request[w].video_id
                    once == videos'[v]
                    twice == update_row(once, video_updates(request[w], now))
                IN /\ Lease(once) = NoLease
                   /\ Lease(videos[v]) = NoLease
                         => Lease(once) = Lease(videos[v])
                   /\ twice = once
          ]_vars

\* A completion released a held lease, and a second completion has applied
\* the release again to the video that was already unlocked.
C10_Witness ==
    \E w \in Workers :
        /\ pc[w] = "cmp_log"
        /\ Len(activity_log) = 2
        /\ activity_log[1].action_type = "annotation_started"
        /\ activity_log[2].action_type = "annotation_completed"
        /\ Lease(video[w][1]) = NoLease
        /\ Lease(videos[request[w].video_id]) = NoLease

\* C11: complete_annotation with an absent or empty annotation_data ends at
\* its validation: it answers 400 "Invalid annotation format" (500 when the
\* read of the video raises) and leaves the blob store, the Annotation
\* rows, the Video rows with their lease fields and the activity log as
\* they were.
C11_InvalidPayloadNoSideEffect ==
    [][\A w \in Workers :
        (/\ Leaves(w, "cmp_get")
         /\ request[w].annotation_data \in {NULL, Some("")}) =>
            /\ pc'[w] = "idle"
            /\ \/ response'[w] = HTTPException(400, "Invalid annotation format")
               \/ response'[w].status = 500
            /\ UNCHANGED tables
      ]_vars

\* A completion was refused with 400 while the video holds a lease, and
\* nothing but the grant of that lease has been logged.
C11_Witness ==
    \E w \in Workers, v \in VideoIds :
        /\ pc[w] = "idle"
        /\ request[w].op = "complete_annotation"
        /\ response[w] = HTTPException(400, "Invalid annotation format")
        /\ videos[v].locked_by # NULL
        /\ ~videos[v].annotated
        /\ annotations[v] = NULL
        /\ storage[annotation_path(v)] = NULL
        /\ Len(activity_log) = 1

C13_CompletionsDoNotInterleave ==
    \A v \in VideoIds :
        (\A w \in Workers :
            /\ pc[w] = "idle"
            /\ request[w].op = "complete_annotation"
            /\ response[w].status = 200
            /\ response[w].annotation.video_id = v) =>
        \E p \in {q \in Payloads : q.annotation_data # NULL} :
            /\ storage[annotation_path(v)] = Some(encode(p.annotation_data[1]))
            /\ annotations[v] # NULL
            /\ annotations[v][1].detection_count = p.detection_count
            /\ annotations[v][1].species_counts = p.species_counts
            /\ videos[v].detection_count = p.detection_count

\* C14: complete_annotation with a valid payload never looks at the lease:
\* whatever lease the Video holds, each of its steps goes on to the next
\* one unless a store call raises, its update of the Video leaves the three
\* lease fields unset, and it answers 200 with them unset.
C14_CompleteIgnoresLease ==
    [][\A w \in Workers :
        (/\ request[w].op = "complete_annotation"
         /\ "annotation_data" \in DOMAIN request[w]
         /\ Truthy(request[w].annotation_data)) =>
            LET v == request[w].video_id
                raised == pc'[w] = "idle" /\ response'[w].status = 500
            IN /\ Leaves(w, "cmp_get") => pc'[w] = "cmp_upload" \/ raised
               /\ Leaves(w, "cmp_upload") => pc'[w] = "cmp_upsert" \/ raised
               /\ Leaves(w, "cmp_upsert") => pc'[w] = "cmp_update" \/ raised
               /\ Leaves(w, "cmp_update") =>
                     \/ pc'[w] = "cmp_log" /\ Lease(videos'[v]) = NoLease
                     \/ raised
               /\ Leaves(w, "cmp_log") =>
                     \/ /\ pc'[w] = "idle"
                        /\ response'[w].status = 200
                        /\ response'[w].annotation.video_id = v
                        /\ Lease(videos'[v]) = NoLease
                     \/ raised
      ]_vars

\* Two leases were granted, the second after the first had expired; a
\* completion then read the second lease while it was still active and has
\* cleared it.
C14_Witness ==
    \E w \in Workers :
        /\ pc[w] = "cmp_log"
        /\ lock_active(video[w][1], now)
        /\ Lease(videos[request[w].video_id]) = NoLease
        /\ Len(activity_log) = 2
        /\ activity_log[1].action_type = "annotation_started"
        /\ activity_log[2].action_type = "annotation_started"

\* C15: delete_annotation on a video without an Annotation row answers 404
\* "Annotation not found" (500 when the select raises) and leaves the blob
\* store, the Video rows, the Annotation rows and the activity log as they
\* were, also when the Video still has annotated = true.
C15_DeleteWithoutAnnotation ==
    [][\A w \in Workers :
        (/\ Leaves(w, "del_select")
         /\ annotations[request[w].video_id] = NULL) =>
            /\ pc'[w] = "idle"
            /\ \/ response'[w] = HTTPException(404, "Annotation not found")
               \/ response'[w].status = 500
            /\ UNCHANGED tables
      ]_vars

\* A delete_annotation was answered 404 for a video that has no Annotation
\* row but is still marked annotated (an earlier delete_annotation failed
\* after it had removed the row).
C15_Witness ==
    \E w \in Workers, v \in VideoIds :
        /\ pc[w] = "idle"
        /\ request[w].op = "delete_annotation"
        /\ response[w] = HTTPException(404, "Annotation not found")
        /\ annotations[v] = NULL
        /\ videos[v].annotated
        /\ videos[v].annotation_storage_path # NULL

\* C16: when delete_video has answered 200, the Video row, the video blob,
\* the annotation blob of that video and its Annotation row are all gone,
\* whatever the lease and the annotation state of the video were.
C16_DeleteVideoRemovesAll ==
    [][\A w \in Workers :
        (Returns(w, "dv_log") /\ response'[w].status = 200) =>
            LET v == request[w].video_id
            IN /\ v \notin DOMAIN videos'
               /\ storage'[video_path(v)] = NULL
               /\ storage'[annotation_path(v)] = NULL
               /\ annotations'[v] = NULL
      ]_vars

\* The scheme as it is written in the URL: the text before its first ":".
written_scheme(u) ==
    IF find(u, ":") = 0 THEN "" ELSE SubSeq(u, 1, find(u, ":") - 1)

\* parse_url failed on the protocol check / on a malformed URL.
InvalidProtocol(r) ==
    /\ "raised" \in DOMAIN r
    /\ Len(r.message) >= 37
    /\ SubSeq(r.message, 1, 37) = "Failed to parse URL: Invalid protocol"

InvalidUrl(r) == "raised" \in DOMAIN r /\ ~InvalidProtocol(r)

\* C17: parse_url fails with the invalid-protocol error only for a URL
\* whose written scheme is not, letter case included, the expected one, and
\* every URL with such a scheme fails (with that error unless it is
\* malformed): OCEANML://... is rejected by a handler for oceanml.
C17_SchemeCaseSensitive ==
    result # NULL =>
        /\ InvalidProtocol(result[1]) => written_scheme(url[1]) # protocol
        /\ written_scheme(url[1]) # protocol =>
              InvalidProtocol(result[1]) \/ InvalidUrl(result[1])

\* The action a link names: its authority or, without one, the text of its
\* path before the first "/".
link_action(c) ==
    IF c.authority # NULL /\ c.authority[1] # "" THEN c.authority[1]
    ELSE IF find(c.path, "/") = 0 THEN c.path
    ELSE SubSeq(c.path, 1, find(c.path, "/") - 1)

\* The first value a link gives to a query parameter ("+" read as a space);
\* NULL when it gives none.
link_value(c, key) ==
    LET pairs == IF c.query = NULL THEN <<>> ELSE c.query[1]
        I == {i \in 1..Len(pairs) :
                /\ pairs[i].name = key
                /\ pairs[i].value # NULL
                /\ pairs[i].value[1] # ""}
    IN IF I = {} THEN NULL
       ELSE Some(unquote_plus(
                pairs[CHOOSE i \in I : \A j \in I : i <= j].value[1]))

C19_ValidateThreeNonEmptySegments ==
    valid # NULL =>
        LET params == result[1].returned
        IN (valid[1] = returns(TRUE)) <=>
              /\ params.action # ""
              /\ Truthy(params.video_id)
              /\ Truthy(params.token)
              /\ Len(split(params.token[1], ".")) = 3
              /\ \A i \in 1..3 : split(params.token[1], ".")[i] # ""

\* C20: validate_params does not raise: applied to what parse_url returned
\* it returns a boolean, and it returns False when the token is None.
C20_ValidateNeverRaises ==
    valid # NULL =>
        /\ "returned" \in DOMAIN valid[1]
        /\ valid[1].returned \in BOOLEAN
        /\ result[1].returned.token = NULL => valid[1] = returns(FALSE)

\* The URL of the example without a token was parsed, with token None, and
\* validate_params has returned False for it.
C20_Witness ==
    /\ url = Some("oceanml://annotate?video=123")
    /\ result = Some(returns([action |-> "annotate",
                              video_id |-> Some("123"),
                              token |-> NULL]))
    /\ valid = Some(returns(FALSE))

\* C21: in every state reached through start_annotation, complete_annotation
\* and delete_annotation, overlapping calls included, the three lease fields
\* of a Video are set together or unset together.
C21_LeaseFieldsTogether ==
    \A v \in VideoIds :
        /\ (videos[v].locked_by # NULL) <=> (videos[v].lock_expires_at # NULL)
        /\ (videos[v].lock_expires_at # NULL) <=> (videos[v].locked_at # NULL)

\* A lease with its three fields is stored, written by a start_annotation
\* that overlaps with a complete_annotation about to clear it.
C21_Witness ==
    \E w \in Workers, u \in Workers, v \in VideoIds :
        /\ w # u
        /\ pc[w] = "acq_log"
        /\ request[w].video_id = v
        /\ pc[u] = "cmp_update"
        /\ request[u].video_id = v
        /\ Lease(videos[v]) = <<updates[w][1].locked_by,
                                updates[w][1].locked_at,
                                updates[w][1].lock_expires_at>>
        /\ videos[v].locked_by # NULL
        /\ videos[v].locked_at # NULL
        /\ videos[v].lock_expires_at # NULL

\* The annotation fields of a Video row.
AnnotationFields ==
    {"annotated", "annotated_by", "annotated_at", "annotation_storage_path",
     "detection_count"}

\* C22: delete_annotation writes the Video once, in its update step; that
\* write sets the five annotation fields and leaves every other field, the
\* three lease fields among them, as it was, so the video holds an active
\* lease after the step exactly when it held one before; no other step of
\* the handler changes a Video row.
C22_DeleteKeepsLease ==
    [][\A w \in Workers :
        (/\ request[w].op = "delete_annotation"
         /\ pc[w] # "idle"
         /\ pc'[w] # pc[w]) =>
            LET v == request[w].video_id
            IN /\ Lease(videos'[v]) = Lease(videos[v])
               /\ NoActiveLease(videos'[v], now)
                     <=> NoActiveLease(videos[v], now)
               /\ \A f \in DOMAIN videos[v] \ AnnotationFields :
                     videos'[v][f] = videos[v][f]
               /\ IF pc[w] = "del_update" /\ pc'[w] = "del_log"
                  THEN /\ videos'[v].annotated = FALSE
                       /\ videos'[v].annotated_by = NULL
                       /\ videos'[v].annotated_at = NULL
                       /\ videos'[v].annotation_storage_path = NULL
                       /\ videos'[v].detection_count = 0
                  ELSE videos' = videos
      ]_vars

\* A video was annotated, then locked, and then its annotation was deleted:
\* the delete has returned and the lease is still held and still active.
C22_Witness ==
    \E w \in Workers, v \in VideoIds :
        /\ pc[w] = "idle"
        /\ request[w].op = "delete_annotation"
        /\ response[w].status = 200
        /\ response[w].video_id = v
        /\ Len(activity_log) = 3
        /\ activity_log[1].action_type = "annotation_completed"
        /\ activity_log[2].action_type = "annotation_started"
        /\ activity_log[3].action_type = "annotation_deleted"
        /\ ~videos[v].annotated
        /\ videos[v].locked_by = Some(current_user_id)
        /\ ~NoActiveLease(videos[v], now)

\* C23: delete_annotation deletes the blob before the Annotation row and
\* updates the Video last: the row is removed only when its blob is gone,
\* and the Video is written only when the row is gone.  When the call fails
\* after the blob deletion and before the row deletion, it answers 500, the
\* Annotation row is still there, its storage_path names no blob, and the
\* Video is as it was: annotated if it was annotated.
C23_DeleteOrderLeavesDanglingRow ==
    [][\A w \in Workers :
        (/\ request[w].op = "delete_annotation"
         /\ pc[w] # "idle"
         /\ pc'[w] # pc[w]) =>
            LET v == request[w].video_id
            IN /\ (annotations[v] # NULL /\ annotations'[v] = NULL) =>
                     /\ pc[w] = "del_row"
                     /\ storage[annotations[v][1].storage_path[1]] = NULL
               /\ videos' # videos =>
                     /\ pc[w] = "del_update"
                     /\ annotations[v] = NULL
                     /\ storage[annotation[w][1].storage_path[1]] = NULL
               /\ (pc[w] = "del_row" /\ pc'[w] = "idle") =>
                     /\ response'[w].status = 500
                     /\ annotations'[v] # NULL
                     /\ storage'[annotations'[v][1].storage_path[1]] = NULL
                     /\ videos' = videos
                     /\ videos[v].annotated => videos'[v].annotated
      ]_vars

\* A delete_annotation of an annotated video failed after it had deleted
\* the blob: the row names a blob that is not there and the Video is still
\* annotated and still names that blob.
C23_Witness ==
    \E w \in Workers, v \in VideoIds :
        /\ pc[w] = "idle"
        /\ request[w].op = "delete_annotation"
        /\ response[w].status = 500
        /\ annotations[v] # NULL
        /\ storage[annotations[v][1].storage_path[1]] = NULL
        /\ videos[v].annotated
        /\ videos[v].annotation_storage_path = annotations[v][1].storage_path

\* C24: a complete_annotation that succeeds leaves the blob, the Annotation
\* row and the annotation and lease fields of the Video (annotated_at
\* aside) as its request alone determines them, whatever the store held
\* before: after an attempt with the same payload that failed at its
\* upload, its upsert, its Video update or its log append, the retry ends
\* in the state of a complete that succeeded at once.
C24_CompleteRetriable ==
    [][\A w \in Workers :
        (Returns(w, "cmp_log") /\ response'[w].status = 200) =>
            LET v == request[w].video_id
            IN /\ storage'[annotation_path(v)]
                     = Some(encode(request[w].annotation_data[1]))
               /\ annotations'[v] = Some(annotation_row(request[w]))
               /\ response'[w].annotation = annotation_row(request[w])
               /\ videos'[v].annotated = TRUE
               /\ videos'[v].annotated_by = Some(current_user_id)
               /\ videos'[v].annotation_storage_path
                     = Some(annotation_path(v))
               /\ videos'[v].detection_count = request[w].detection_count
               /\ Lease(videos'[v]) = NoLease
      ]_vars

\* A retry has made its three writes after a first attempt with the same
\* payload failed at its log append: the Video the retry read was already
\* annotated with the counts of this request, and nothing has been logged.
C24_Witness ==
    \E w \in Workers :
        /\ pc[w] = "cmp_log"
        /\ calls = 2
        /\ activity_log = <<>>
        /\ video[w][1].annotated
        /\ video[w][1].detection_count = request[w].detection_count
        /\ request[w].detection_count = 2
        /\ annotations[request[w].video_id] = Some(annotation_row(request[w]))
        /\ storage[annotation_path(request[w].video_id)]
              = Some(encode(request[w].annotation_data[1]))
        /\ videos[request[w].video_id].annotated

\* C25: a lease is not re-entrant and is not renewed.  While the stored
\* lease of the requester is active, its start_annotation is denied with
\* the response any caller gets and nothing in the store changes, the
\* expiry included; a grant is decided, and a stored lease is overwritten,
\* only when locked_by is unset or the expiry is at or before now.
C25_LeaseNotReentrant ==
    [][\A w \in Workers :
        (request[w].op = "start_annotation" /\ pc[w] # "idle") =>
            LET v == request[w].video_id
                row == videos[v]
            IN /\ (/\ Leaves(w, "acq_check")
                    /\ row.locked_by = Some(current_user_id)
                    /\ row.lock_expires_at # NULL
                    /\ fromisoformat(row.lock_expires_at[1]) > now) =>
                      /\ pc'[w] = "idle"
                      /\ response'[w] =
                            [status |-> 200, success |-> FALSE,
                             video_id |-> v,
                             locked_by |-> current_user_id,
                             locked_until |->
                                 fromisoformat(row.lock_expires_at[1])]
                      /\ UNCHANGED tables
               /\ (pc'[w] = "acq_update" \/ Lease(videos'[v]) # Lease(row)) =>
                      \/ row.locked_by = NULL
                      \/ /\ row.lock_expires_at # NULL
                         /\ fromisoformat(row.lock_expires_at[1]) <= now
      ]_vars

\* The holder of an active lease asked again, for a longer time: it was
\* denied and the stored expiry is the one of its first grant.
C25_Witness ==
    \E w \in Workers, v \in VideoIds :
        /\ pc[w] = "idle"
        /\ request[w].op = "start_annotation"
        /\ calls = 2
        /\ response[w].status = 200
        /\ response[w].success = FALSE
        /\ response[w].video_id = v
        /\ response[w].locked_by = current_user_id
        /\ videos[v].locked_by = Some(current_user_id)
        /\ videos[v].lock_expires_at = Some(isoformat(response[w].locked_until))
        /\ videos[v].locked_at = Some(isoformat(0))
        /\ now < response[w].locked_until
        /\ Len(activity_log) = 1
        /\ activity_log[1].action_type = "annotation_started"

\* C26: start_annotation appends its activity record only when the lease it
\* decided is stored; when that append raises, the call answers 500, the
\* record is not there and the lease stays as the call stored it.  A stored
\* lease is changed afterwards only by the Video update of a
\* complete_annotation, which clears it, or by the grant of a
\* start_annotation once its expiry is at or before now.
C26_LogFailureKeepsLease ==
    [][\A w \in Workers, v \in VideoIds :
        /\ (/\ request[w].op = "start_annotation"
            /\ pc[w] # "idle"
            /\ request[w].video_id = v) =>
              /\ activity_log' # activity_log =>
                    /\ pc[w] = "acq_log"
                    /\ videos[v].locked_by = updates[w][1].locked_by
                    /\ videos[v].locked_at = updates[w][1].locked_at
                    /\ videos[v].lock_expires_at
                          = updates[w][1].lock_expires_at
              /\ (/\ Returns(w, "acq_log")
                  /\ activity_log' = activity_log) =>
                    /\ response'[w] = HTTPException(500, "start_annotation")
                    /\ videos' = videos
                    /\ videos'[v].locked_by = Some(current_user_id)
                    /\ videos'[v].locked_at = updates[w][1].locked_at
                    /\ videos'[v].lock_expires_at
                          = updates[w][1].lock_expires_at
        /\ (/\ pc'[w] # pc[w]
            /\ videos[v].locked_by # NULL
            /\ Lease(videos'[v]) # Lease(videos[v])) =>
              \/ /\ pc[w] = "cmp_update"
                 /\ Lease(videos'[v]) = NoLease
              \/ /\ pc[w] = "acq_update"
                 /\ fromisoformat(videos[v].lock_expires_at[1]) <= now
      ]_vars

\* The only call so far was a start_annotation whose log append failed: the
\* caller got a 500, nothing is logged, and the video holds its lease.
C26_Witness ==
    \E w \in Workers, v \in VideoIds :
        /\ pc[w] = "idle"
        /\ request[w].op = "start_annotation"
        /\ calls = 1
        /\ response[w].status = 500
        /\ activity_log = <<>>
        /\ videos[v].locked_by = Some(current_user_id)
        /\ videos[v].locked_at # NULL
        /\ ~NoActiveLease(videos[v], now)

====
